---- MODULE Spec2Model ----
(***************************************************************************)
(* A model of coherent.docs (src/core.py): package-name resolution, module *)
(* discovery, index.rst generation, the sphinx environment, and the        *)
(* orchestration of run().                                                 *)
(*                                                                         *)
(* Text is modelled as a sequence of tokens.  A token is a one-character   *)
(* string (every character the code inspects) or a multi-character string  *)
(* standing for fixed literal text that the code only copies.              *)
(***************************************************************************)
EXTENDS Integers, Sequences, FiniteSets, TLC

VARIABLES
    \* the package name: find_modules' argument, get_package_name's result
    package_name,
    \* module discovery and index generation: the files under root, the list
    \* find_modules returned, the text make_index_rst returned, the position
    tree, modules, index_rst, mpc,
    \* run(): the outcome of the git call, the working directory, os.environ
    origin, cwd, environ,
    \* docs/ and the two scaffold files; the files and os.environ before the run
    docs_dir, fs, pre,
    \* the with-blocks entered, the files the assured blocks created, the
    \* exception in flight
    stack, created, exc,
    \* the builder: whether it ran, what subprocess.call returned, its env
    built, rc, child_env,
    \* the ephemeral environment, the process's exit status, the steps taken
    home_live, exit_status, trace, pc

mvars == <<tree, modules, index_rst, mpc>>
rvars == <<origin, cwd, environ, docs_dir, fs, pre, stack, created, exc,
           built, rc, child_env, home_live, exit_status, trace, pc>>
vars == <<package_name, mvars, rvars>>

----------------------------------------------------------------------------
(* Bounds of the model *)

\* most files in a source tree
MaxFiles == 4
\* builder exit codes 0..MaxCode are explored, besides the largest one
MaxCode == 2

----------------------------------------------------------------------------
(* Characters and strings *)

\* the characters of the model in code-point order
CodePoints ==
    <<"\n", " ", "-", ".", "/", ":",
      "A", "B", "C", "D", "M", "P", "X",
      "_",
      "a", "b", "c", "d", "g", "h", "i", "m", "n", "o", "p", "r", "t", "w", "x", "y">>

Ord(c) == CHOOSE i \in 1..Len(CodePoints) : CodePoints[i] = c

LowerCase == <<"a", "b", "c", "d", "m", "p", "x">>
UpperCase == <<"A", "B", "C", "D", "M", "P", "X">>

IsLower(c) == \E i \in 1..Len(LowerCase) : LowerCase[i] = c
IsUpper(c) == \E i \in 1..Len(UpperCase) : UpperCase[i] = c
IsCased(c) == IsLower(c) \/ IsUpper(c)
ToUpper(c) == IF IsLower(c) THEN UpperCase[CHOOSE i \in 1..Len(LowerCase) : LowerCase[i] = c] ELSE c
ToLower(c) == IF IsUpper(c) THEN LowerCase[CHOOSE i \in 1..Len(UpperCase) : UpperCase[i] = c] ELSE c

Last(s) == s[Len(s)]
Front(s) == SubSeq(s, 1, Len(s) - 1)

StartsWith(s, head) == Len(s) >= Len(head) /\ SubSeq(s, 1, Len(head)) = head
EndsWith(s, suf) == Len(s) >= Len(suf) /\ SubSeq(s, Len(s) - Len(suf) + 1, Len(s)) = suf

\* str.__lt__: lexicographic by code point
RECURSIVE StrLess(_, _)
StrLess(s, t) ==
    IF t = <<>> THEN FALSE
    ELSE IF s = <<>> THEN TRUE
    ELSE IF s[1] # t[1] THEN Ord(s[1]) < Ord(t[1])
    ELSE StrLess(Tail(s), Tail(t))

\* str.count(c)
Count(s, c) == Cardinality({i \in 1..Len(s) : s[i] = c})

\* str.replace(a, b) for one-character a and b
Replace(s, a, b) == [i \in 1..Len(s) |-> IF s[i] = a THEN b ELSE s[i]]

\* positions of c in s
Positions(s, c) == {i \in 1..Len(s) : s[i] = c}
Max(S) == CHOOSE x \in S : \A y \in S : y <= x
Min(S) == CHOOSE x \in S : \A y \in S : x <= y

\* str.split(c)[0] and str.split(c)[-1]
SplitFirst(s, c) == IF Positions(s, c) = {} THEN s ELSE SubSeq(s, 1, Min(Positions(s, c)) - 1)
SplitLast(s, c) == IF Positions(s, c) = {} THEN s ELSE SubSeq(s, Max(Positions(s, c)) + 1, Len(s))

\* sep.join(parts)
RECURSIVE Join(_, _)
Join(parts, sep) ==
    IF parts = <<>> THEN <<>>
    ELSE IF Len(parts) = 1 THEN parts[1]
    ELSE parts[1] \o sep \o Join(Tail(parts), sep)

\* c * n
RECURSIVE Repeat(_, _)
Repeat(c, n) == IF n <= 0 THEN <<>> ELSE <<c>> \o Repeat(c, n - 1)

\* str.title(): a cased character is upper-cased after an uncased one, lower-cased otherwise
Title(s) ==
    [i \in 1..Len(s) |->
        IF i > 1 /\ IsCased(s[i - 1]) THEN ToLower(s[i]) ELSE ToUpper(s[i])]

DOT == <<".">>
PY == <<".", "p", "y">>
DUNDER_INIT == <<"_", "_", "i", "n", "i", "t", "_", "_">>
INIT_PY == DUNDER_INIT \o PY

----------------------------------------------------------------------------
(* find_modules: a path is a sequence of components relative to root; the  *)
(* source tree is the set of the files under root.                         *)

IsPrefix(d, f) == Len(f) >= Len(d) /\ SubSeq(f, 1, Len(d)) = d

\* pathlib.Path.exists(): a file, or a directory holding a file
Exists(path, files) == \E f \in files : IsPrefix(path, f)

\* PurePath.__lt__: the parts compared lexicographically
RECURSIVE PathLess(_, _)
PathLess(p, q) ==
    IF q = <<>> THEN FALSE
    ELSE IF p = <<>> THEN TRUE
    ELSE IF p[1] # q[1] THEN StrLess(p[1], q[1])
    ELSE PathLess(Tail(p), Tail(q))

\* sorted() of a set of paths
RECURSIVE SortedPaths(_)
SortedPaths(S) ==
    IF S = {} THEN <<>>
    ELSE LET least == CHOOSE p \in S : \A q \in S \ {p} : PathLess(p, q)
         IN  <<least>> \o SortedPaths(S \ {least})

\* pkg_dir.rglob('*.py'): the files below pkg_dir whose name ends in .py
Rglob(pkg_dir, files) ==
    {f \in files : IsPrefix(pkg_dir, f) /\ Len(f) > Len(pkg_dir) /\ EndsWith(Last(f), PY)}

\* path.relative_to(pkg_dir)
RelativeTo(path, pkg_dir) == SubSeq(path, Len(pkg_dir) + 1, Len(path))

\* PurePath.with_suffix(''): the name loses its last suffix, if it has one
WithoutSuffix(path) ==
    LET name == Last(path)
        dots == Positions(name, ".")
        i == Max(dots)
    IN  IF dots = {} \/ i = 1 \/ i = Len(name) THEN path
        ELSE Front(path) \o <<SubSeq(name, 1, i - 1)>>

\* the module's parts: the suffix stripped, a final __init__ dropped
PartsDropInit(parts) == IF Last(parts) = DUNDER_INIT THEN Front(parts) ELSE parts
PartsOf(path, pkg_dir) == PartsDropInit(WithoutSuffix(RelativeTo(path, pkg_dir)))

\* a variant that looks at the module's own name only
IsPrivateName(parts) == parts # <<>> /\ StartsWith(Last(parts), <<"_">>)

\* any(p.startswith('_') for p in parts)
IsPrivate(parts) == \E i \in 1..Len(parts) : StartsWith(parts[i], <<"_">>)

\* to_module of either layout, over the layout's prefix
to_module(prefix, parts) ==
    IF parts = <<>> THEN prefix ELSE prefix \o DOT \o Join(parts, DOT)

\* top = package_name.replace('-', '_').split('.')[0]
Top(name) == SplitFirst(Replace(name, "-", "_"), ".")

\* the loop over the sorted paths, appending each public module
RECURSIVE Collect(_, _, _)
Collect(paths, pkg_dir, prefix) ==
    IF paths = <<>> THEN <<>>
    ELSE LET parts == PartsOf(paths[1], pkg_dir)
             rest == Collect(Tail(paths), pkg_dir, prefix)
         IN  IF IsPrivate(parts) THEN rest
             ELSE <<to_module(prefix, parts)>> \o rest

\* the sort key (m.count('.'), m)
KeyLess(m1, m2) ==
    \/ Count(m1, ".") < Count(m2, ".")
    \/ Count(m1, ".") = Count(m2, ".") /\ StrLess(m1, m2)

\* list.sort(key=...): a stable sort
RECURSIVE Insert(_, _)
Insert(m, sorted) ==
    IF sorted = <<>> THEN <<m>>
    ELSE IF KeyLess(m, sorted[1]) THEN <<m>> \o sorted
    ELSE <<sorted[1]>> \o Insert(m, Tail(sorted))

RECURSIVE SortModules(_)
SortModules(ms) ==
    IF ms = <<>> THEN <<>>
    ELSE Insert(Last(ms), SortModules(Front(ms)))

\* a variant that returns the mapped first component
ShortCircuitTop(name) == <<Top(name)>>

\* the early return when the package directory does not exist
ShortCircuit(name) == <<name>>

Discovered(pkg_dir, prefix, files) ==
    SortModules(Collect(SortedPaths(Rglob(pkg_dir, files)), pkg_dir, prefix))

find_modules(name, files) ==
    IF Exists(<<INIT_PY>>, files)
    THEN Discovered(<<>>, name, files)
    ELSE IF ~Exists(<<Top(name)>>, files)
         THEN ShortCircuit(name)
         ELSE Discovered(<<Top(name)>>, Top(name), files)

----------------------------------------------------------------------------
(* make_index_rst *)

NL == <<"\n">>

\* label = mod.split('.')[-1].replace('_', ' ').title()
Label(mod) == Title(Replace(SplitLast(mod, "."), "_", " "))

\* f'\n{label}\n{"-" * len(label)}\n'
Header(mod) == NL \o Label(mod) \o NL \o Repeat("-", Len(Label(mod))) \o NL

\* the automodule directive block
Directive(mod) ==
    NL \o <<".. automodule:: ">> \o mod \o NL
       \o <<"   :members:">> \o NL
       \o <<"   :undoc-members:">> \o NL
       \o <<"   :show-inheritance:">> \o NL

\* whether the loop emits a header for mod: mod != modules[0]
NeedsHeader(mod, first) == mod # first

\* the loop over the modules, joined
RECURSIVE Entries(_, _)
Entries(ms, first) ==
    IF ms = <<>> THEN <<>>
    ELSE (IF NeedsHeader(ms[1], first) THEN Header(ms[1]) ELSE <<>>)
         \o Directive(ms[1]) \o Entries(Tail(ms), first)

Body(ms) == IF ms = <<>> THEN <<>> ELSE Entries(ms, ms[1])

IndexHead ==
    <<"Welcome to |project| documentation!">> \o NL
    \o <<"===================================">> \o NL
    \o NL
    \o <<".. sidebar-links::">> \o NL
    \o <<"   :home:">> \o NL
    \o <<"   :pypi:">> \o NL
    \o NL
    \o <<".. toctree::">> \o NL
    \o <<"   :maxdepth: 1">> \o NL
    \o NL
    \o <<"   history">> \o NL

\* (the role's back-quotes are written < > here)
IndexFoot ==
    NL \o NL
    \o <<"Indices and tables">> \o NL
    \o <<"==================">> \o NL
    \o NL
    \o <<"* :ref:<genindex>">> \o NL
    \o <<"* :ref:<modindex>">> \o NL
    \o <<"* :ref:<search>">> \o NL

make_index_rst(name, ms) == IndexHead \o Body(ms) \o IndexFoot

----------------------------------------------------------------------------
(* The source trees and package names explored *)

S_a == <<"a">>
S_p == <<"p">>
S_a_b == <<"a", "_", "b">>
S_d == <<"_", "d">>
A_PY == <<"a">> \o PY
BC_PY == <<"b", "_", "c">> \o PY
X_PY == <<"_", "x">> \o PY
README == <<"r", "m">>

Universe ==
    { <<INIT_PY>>, <<A_PY>>, <<S_a, INIT_PY>>, <<S_a, BC_PY>>, <<X_PY>>,
      <<S_p, INIT_PY>>, <<S_p, A_PY>>, <<S_p, S_a, INIT_PY>>, <<S_p, S_d, A_PY>>,
      <<S_p, README>>,
      <<S_a_b, INIT_PY>>, <<S_a_b, BC_PY>>, <<S_a_b, X_PY>> }

\* "p" and "a-b.c"
PackageNames == { S_p, <<"a", "-", "b", ".", "c">> }

Trees == {t \in SUBSET Universe : Cardinality(t) <= MaxFiles}

----------------------------------------------------------------------------
(* get_package_name *)

IsSpace(c) == c = "\n" \/ c = " "

\* str.strip()
RECURSIVE LStrip(_)
LStrip(s) == IF s # <<>> /\ IsSpace(s[1]) THEN LStrip(Tail(s)) ELSE s
RECURSIVE RStrip(_)
RStrip(s) == IF s # <<>> /\ IsSpace(Last(s)) THEN RStrip(Front(s)) ELSE s
Strip(s) == RStrip(LStrip(s))

\* str.rpartition(c)[2]
RPartitionTail(s, c) == SplitLast(s, c)

\* str.removesuffix(suf)
RemoveSuffix(s, suf) == IF EndsWith(s, suf) THEN SubSeq(s, 1, Len(s) - Len(suf)) ELSE s

DOT_GIT == <<".", "g", "i", "t">>

\* pathlib.Path('.').absolute().name: '' at the filesystem root
CwdName(dir) == IF dir = <<>> THEN <<>> ELSE Last(dir)

\* the name taken from the remote's URL
OriginName(out) == RemoveSuffix(RPartitionTail(Strip(out), "/"), DOT_GIT)

\* check_output raising (git missing, or a non-zero exit) is caught
get_package_name(org, dir) ==
    IF org.kind = "url" /\ OriginName(org.out) # <<>>
    THEN OriginName(org.out)
    ELSE CwdName(dir)

----------------------------------------------------------------------------
(* build_env: an environment is a function from variable names to values *)

PATHSEP == <<":">>

\* pip_run.launch._path_insert, as build_env's doctest shows it
path_insert(previous, value) ==
    IF previous = <<>> THEN value ELSE value \o PATHSEP \o previous

\* orig.get(key, '')
EnvGet(env, key) == IF key \in DOMAIN env THEN env[key] ELSE <<>>

Overlay(target, orig) ==
    [k \in {"PYTHONPATH", "PYTHONSAFEPATH"} |->
        IF k = "PYTHONPATH" THEN path_insert(EnvGet(orig, "PYTHONPATH"), target)
        ELSE <<"1">>]

\* a variant that returns the overlay alone
build_env_overlay(target, orig) == Overlay(target, orig)

\* {**orig, **overlay}
build_env(target, orig) ==
    [k \in DOMAIN orig \cup DOMAIN Overlay(target, orig) |->
        IF k \in DOMAIN Overlay(target, orig) THEN Overlay(target, orig)[k] ELSE orig[k]]

----------------------------------------------------------------------------
(* The module-discovery machine: find_modules, then make_index_rst *)

ABSENT == "absent"
CONF_PY == "docs/conf.py"
INDEX_RST == "docs/index.rst"
ScaffoldFiles == {CONF_PY, INDEX_RST}

EmptyEnv == [k \in {} |-> <<>>]

RunIdle ==
    /\ origin = [kind |-> "missing", out |-> <<>>]
    /\ cwd = <<>>
    /\ environ = EmptyEnv
    /\ docs_dir = FALSE
    /\ fs = [f \in ScaffoldFiles |-> ABSENT]
    /\ pre = [fs |-> [f \in ScaffoldFiles |-> ABSENT], environ |-> EmptyEnv]
    /\ stack = <<>>
    /\ created = {}
    /\ exc = "none"
    /\ built = FALSE
    /\ rc = 0
    /\ child_env = EmptyEnv
    /\ home_live = FALSE
    /\ exit_status = 0
    /\ trace = <<>>
    /\ pc = "idle"

InitModules ==
    /\ package_name \in PackageNames
    /\ tree \in Trees
    /\ modules = <<>>
    /\ index_rst = <<>>
    /\ mpc = "start"
    /\ RunIdle

FindModules ==
    /\ mpc = "start"
    /\ modules' = find_modules(package_name, tree)
    /\ mpc' = "found"
    /\ UNCHANGED <<package_name, tree, index_rst, rvars>>

MakeIndexRst ==
    /\ mpc = "found"
    /\ index_rst' = make_index_rst(package_name, modules)
    /\ mpc' = "rendered"
    /\ UNCHANGED <<package_name, tree, modules, rvars>>

NextModules == FindModules \/ MakeIndexRst

SpecModules == InitModules /\ [][NextModules]_vars

----------------------------------------------------------------------------
(* run() *)

\* the outcomes of `git remote get-url origin`
Origins ==
    { [kind |-> "missing", out |-> <<>>],
      [kind |-> "failed", out |-> <<>>],
      [kind |-> "url", out |-> <<"h", ":", "/", "o", "/", "r", ".", "g", "i", "t", "\n">>],
      [kind |-> "url", out |-> <<"h", ":", "/", "o", "/", "a", "-", "b", ".", "c", "\n">>],
      [kind |-> "url", out |-> <<"h", ":", "/", "o", "/", "r", "/", "\n">>],
      [kind |-> "url", out |-> <<"h", ":", "/", "o", "/", ".", "g", "i", "t", "\n">>],
      [kind |-> "url", out |-> <<"r", ".", "g", "i", "t">>],
      [kind |-> "url", out |-> <<"\n">>] }

\* the working directories: /, /w, /w/p
Cwds == { <<>>, << <<"w">> >>, << <<"w">>, S_p >> }

EnvKeys == {"PYTHONPATH", "PYTHONSAFEPATH", "PATH"}
EnvValues(k) ==
    CASE k = "PYTHONPATH" -> { <<>>, <<"b">>, <<"b", ":", "c">> }
      [] k = "PYTHONSAFEPATH" -> { <<"0">> }
      [] OTHER -> { <<"/", "b">> }
Environs ==
    UNION { {e \in [K -> UNION {EnvValues(k) : k \in EnvKeys}] :
                \A k \in K : e[k] \in EnvValues(k)} : K \in SUBSET EnvKeys }

\* the installation path the ephemeral environment yields
HOME == <<"/", "t">>

\* what a scaffold file may hold before the run
USER == "user"
\* docs/ missing (and so both files), or present with either file there or not
Scaffolds ==
    { d \in [dir : BOOLEAN, files : [ScaffoldFiles -> {ABSENT, USER}]] :
        ~d.dir => \A f \in ScaffoldFiles : d.files[f] = ABSENT }

\* what the builder subprocess can do: exit with a code, or die of a signal,
\* which subprocess.call returns as the negated signal number
ExitCodes == 0..MaxCode \cup {255}
ReturnCodes == ExitCodes \cup {-9}

ModulesIdle ==
    /\ tree = {}
    /\ modules = <<>>
    /\ index_rst = <<>>
    /\ mpc = "idle"

Init ==
    /\ package_name = <<>>
    /\ ModulesIdle
    /\ origin \in Origins
    /\ cwd \in Cwds
    /\ environ \in Environs
    /\ \E d \in Scaffolds :
        /\ docs_dir = d.dir
        /\ fs = d.files
        /\ pre = [fs |-> d.files, environ |-> environ]
    /\ stack = <<>>
    /\ created = {}
    /\ exc = "none"
    /\ built = FALSE
    /\ rc = 0
    /\ child_env = EmptyEnv
    /\ home_live = FALSE
    /\ exit_status = 0
    /\ trace = <<>>
    /\ pc = "start"

\* an exception leaves the block it is raised in
Raise(kind) == exc' = kind /\ pc' = "unwind"

\* package_name = get_package_name()
GetPackageName ==
    /\ pc = "start"
    /\ package_name' = get_package_name(origin, cwd)
    /\ trace' = Append(trace, "name")
    /\ pc' = "write_pyproject"
    /\ UNCHANGED <<mvars, origin, cwd, environ, docs_dir, fs, pre, stack,
                   created, exc, built, rc, child_env, home_live,
                   exit_status>>

\* project_on_path: with bootstrap.write_pyproject(), ...
EnterPyproject ==
    /\ pc = "write_pyproject"
    /\ stack' = Append(stack, "pyproject")
    /\ pc' = "deps"
    /\ UNCHANGED <<package_name, mvars, origin, cwd, environ, docs_dir, fs,
                   pre, created, exc, built, rc, child_env, home_live,
                   exit_status, trace>>

\* project_on_path: ... deps as home: the install succeeds, or fails and raises
EnterDeps ==
    /\ pc = "deps"
    /\ \/ /\ stack' = Append(stack, "deps")
          /\ home_live' = TRUE
          /\ trace' = Append(trace, "env")
          /\ pc' = "mkdir"
          /\ UNCHANGED exc
       \/ /\ Raise("Error")
          /\ UNCHANGED <<stack, home_live, trace>>
    /\ UNCHANGED <<package_name, mvars, origin, cwd, environ, docs_dir, fs,
                   pre, created, built, rc, child_env, exit_status>>

\* configure_docs: docs.mkdir(exist_ok=True); it can fail only if docs/ is not there
Mkdir ==
    /\ pc = "mkdir"
    /\ \/ /\ docs_dir' = TRUE
          /\ trace' = Append(trace, "mkdir")
          /\ pc' = "find_modules"
          /\ UNCHANGED exc
       \/ /\ ~docs_dir
          /\ Raise("Error")
          /\ UNCHANGED <<docs_dir, trace>>
    /\ UNCHANGED <<package_name, mvars, origin, cwd, environ, fs, pre, stack,
                   created, built, rc, child_env, home_live, exit_status>>

\* configure_docs: modules = find_modules(package_name)
Discover ==
    /\ pc = "find_modules"
    /\ trace' = Append(trace, "discover")
    /\ pc' = "conf"
    /\ UNCHANGED <<package_name, mvars, origin, cwd, environ, docs_dir, fs,
                   pre, stack, created, exc, built, rc, child_env, home_live,
                   exit_status>>

\* what an assured block writes into a file that is not there
Generated(file) == IF file = CONF_PY THEN "template" ELSE "index"

\* bootstrap.assured(target, factory): enter with the file there; create it if it
\* is missing, the factory called first; a failing factory leaves nothing behind
Assure(file, next, step, can_fail) ==
    \/ /\ fs[file] # ABSENT
       /\ stack' = Append(stack, file)
       /\ trace' = Append(trace, step)
       /\ pc' = next
       /\ UNCHANGED <<fs, created, exc>>
    \/ /\ fs[file] = ABSENT
       /\ fs' = [fs EXCEPT ![file] = Generated(file)]
       /\ created' = created \cup {file}
       /\ stack' = Append(stack, file)
       /\ trace' = Append(trace, step)
       /\ pc' = next
       /\ UNCHANGED exc
    \/ /\ fs[file] = ABSENT
       /\ can_fail
       /\ Raise("Error")
       /\ UNCHANGED <<fs, created, stack, trace>>

\* configure_docs: bootstrap.assured(docs / 'conf.py', load_conf_py); the fetch can fail
EnterConf ==
    /\ pc = "conf"
    /\ Assure(CONF_PY, "index", "conf", TRUE)
    /\ UNCHANGED <<package_name, mvars, origin, cwd, environ, docs_dir, pre,
                   built, rc, child_env, home_live, exit_status>>

\* configure_docs: bootstrap.assured(docs / 'index.rst', lambda: make_index_rst(...))
EnterIndex ==
    /\ pc = "index"
    /\ Assure(INDEX_RST, "build", "index", FALSE)
    /\ UNCHANGED <<package_name, mvars, origin, cwd, environ, docs_dir, pre,
                   built, rc, child_env, home_live, exit_status>>

\* run: raise SystemExit(subprocess.call(cmd, env=build_env(home)))
Build ==
    /\ pc = "build"
    /\ \E code \in ReturnCodes :
        /\ child_env' = build_env(HOME, environ)
        /\ built' = TRUE
        /\ rc' = code
        /\ trace' = Append(trace, "build")
        /\ Raise("SystemExit")
    /\ UNCHANGED <<package_name, mvars, origin, cwd, environ, docs_dir, fs,
                   pre, stack, created, home_live, exit_status>>

\* a variant that leaves the outermost block first
Outermost(stk) == stk[1]

\* the with statement leaves its blocks innermost first
Innermost(stk) == Last(stk)

\* a variant that deletes the file whoever created it
ReleasesAlways(file, made) == TRUE

\* an assured block deletes its file on the way out if it created it
Releases(file, made) == file \in made

RmStep(file) == IF file = CONF_PY THEN "rm_conf" ELSE "rm_index"

\* one with-block is left, on the way out of run()
Unwind ==
    /\ pc = "unwind"
    /\ stack # <<>>
    /\ LET top == Innermost(stack) IN
        /\ stack' = SelectSeq(stack, LAMBDA c : c # top)
        /\ \/ /\ top \in ScaffoldFiles
              /\ Releases(top, created)
              /\ fs' = [fs EXCEPT ![top] = ABSENT]
              /\ trace' = Append(trace, RmStep(top))
              /\ UNCHANGED home_live
           \/ /\ top \in ScaffoldFiles
              /\ ~Releases(top, created)
              /\ UNCHANGED <<fs, trace, home_live>>
           \/ /\ top = "deps"
              /\ home_live' = FALSE
              /\ trace' = Append(trace, "env_down")
              /\ UNCHANGED fs
           \/ /\ top = "pyproject"
              /\ UNCHANGED <<fs, trace, home_live>>
    /\ UNCHANGED <<package_name, mvars, origin, cwd, environ, docs_dir, pre,
                   created, exc, built, rc, child_env, exit_status, pc>>

\* a variant that only tells success from failure
ProcessStatusFlag(kind, code) == IF kind = "SystemExit" /\ code = 0 THEN 0 ELSE 1

\* the status the process ends with: SystemExit's code in eight bits, 1 for any
\* other exception
ProcessStatus(kind, code) == IF kind = "SystemExit" THEN code % 256 ELSE 1

\* the exception leaves run() and ends the process
Exit ==
    /\ pc = "unwind"
    /\ stack = <<>>
    /\ exit_status' = ProcessStatus(exc, rc)
    /\ trace' = Append(trace, "exit")
    /\ pc' = "exited"
    /\ UNCHANGED <<package_name, mvars, origin, cwd, environ, docs_dir, fs,
                   pre, stack, created, exc, built, rc, child_env, home_live>>

Next ==
    \/ GetPackageName
    \/ EnterPyproject
    \/ EnterDeps
    \/ Mkdir
    \/ Discover
    \/ EnterConf
    \/ EnterIndex
    \/ Build
    \/ Unwind
    \/ Exit

Spec == Init /\ [][Next]_vars

----------------------------------------------------------------------------
(* Properties of run() *)

InTrace(step) == \E i \in 1..Len(trace) : trace[i] = step

\* C1: on every exit path of run() after the ephemeral environment was
\* acquired, each scaffold file is as it was before the run: absent if it was
\* absent, present with the same content if it was present.
C1_ScaffoldRestored ==
    (pc = "exited" /\ InTrace("env")) => \A f \in ScaffoldFiles : fs[f] = pre.fs[f]

\* a failing builder, with conf.py created and deleted by the run and the
\* user's index.rst kept
C1_Witness ==
    /\ pc = "exited"
    /\ built /\ rc = 1
    /\ pre.fs[CONF_PY] = ABSENT /\ pre.fs[INDEX_RST] = USER
    /\ InTrace("rm_conf")
    /\ fs[CONF_PY] = ABSENT /\ fs[INDEX_RST] = USER

\* C2: when the builder exits with code c, the process ends with status c,
\* whatever the teardown in between did.
C2_ExitStatus ==
    (pc = "exited" /\ built /\ rc \in 0..255) => exit_status = rc

\* the builder exited with 2, both scaffold files were deleted on the way out
C2_Witness ==
    /\ pc = "exited"
    /\ built /\ rc = 2 /\ exit_status = 2
    /\ InTrace("rm_conf") /\ InTrace("rm_index") /\ InTrace("env_down")

\* the steps of a run in which nothing fails, for the files found before it
StepsOfRun ==
    <<"name", "env", "mkdir", "discover", "conf", "index", "build">>
    \o (IF pre.fs[INDEX_RST] = ABSENT THEN <<"rm_index">> ELSE <<>>)
    \o (IF pre.fs[CONF_PY] = ABSENT THEN <<"rm_conf">> ELSE <<>>)
    \o <<"env_down", "exit">>

\* C3: a run in which no step fails takes the steps in order: name, ephemeral
\* environment, docs/, discovery, conf.py, index.rst, builder, the deletion of
\* the files the run created, the environment's teardown, exit; and the builder
\* is invoked only with both scaffold files there and the environment live.
C3_StepOrder ==
    /\ pc = "build" =>
        /\ \A f \in ScaffoldFiles : fs[f] # ABSENT
        /\ docs_dir /\ home_live
        /\ trace = <<"name", "env", "mkdir", "discover", "conf", "index">>
    /\ (pc = "exited" /\ built) => trace = StepsOfRun

\* a run that created both files, built with code 0 and left
C3_Witness ==
    /\ pc = "exited"
    /\ built /\ rc = 0
    /\ pre.fs = [f \in ScaffoldFiles |-> ABSENT]
    /\ Len(trace) = 11

\* C8: the environment given to the builder has every other variable of
\* os.environ unchanged, PYTHONSAFEPATH = '1', and PYTHONPATH = the target,
\* followed by the path separator and the old value if there was a non-empty
\* one; os.environ itself is as before.
C8_BuildEnv ==
    built =>
        /\ environ = pre.environ
        /\ DOMAIN child_env = DOMAIN environ \cup {"PYTHONPATH", "PYTHONSAFEPATH"}
        /\ \A k \in DOMAIN environ \ {"PYTHONPATH", "PYTHONSAFEPATH"} :
                child_env[k] = environ[k]
        /\ child_env["PYTHONSAFEPATH"] = <<"1">>
        /\ child_env["PYTHONPATH"] =
                IF "PYTHONPATH" \in DOMAIN environ /\ environ["PYTHONPATH"] # <<>>
                THEN HOME \o <<":">> \o environ["PYTHONPATH"]
                ELSE HOME

\* an environment with all three variables set, PYTHONPATH to b:c
C8_Witness ==
    /\ built
    /\ DOMAIN environ = EnvKeys
    /\ environ["PYTHONPATH"] = <<"b", ":", "c">>
    /\ child_env["PYTHONPATH"] = <<"/", "t", ":", "b", ":", "c">>
    /\ child_env["PATH"] = <<"/", "b">>

\* C9: get_package_name returns a non-empty name whatever the remote lookup
\* gave and whatever the working directory is.
C9_NonEmptyName ==
    pc \notin {"idle", "start"} => package_name # <<>>

----------------------------------------------------------------------------
(* Properties of find_modules and make_index_rst *)

Found == mpc \in {"found", "rendered"}
Flat == <<INIT_PY>> \in tree
Names(ms) == {ms[i] : i \in 1..Len(ms)}

\* C4: find_modules returns no module name twice.
C4_NoDuplicates ==
    Found => \A i, j \in 1..Len(modules) : i # j => modules[i] # modules[j]

\* C5, as claimed: with no __init__.py directly in root, find_modules returns
\* [package_name].
C5_NoRootInit ==
    (Found /\ ~Flat) => modules = <<package_name>>

\* C5, amended: with no __init__.py directly in root and nothing in root named
\* as the package's first dotted component (hyphens as underscores),
\* find_modules returns [package_name], the name unchanged.
C5_NoPackageDir ==
    (Found /\ ~Flat /\ ~\E f \in tree : f[1] = Top(package_name))
        => modules = <<package_name>>

\* package a-b.c over a tree that holds only p/
C5_Witness ==
    /\ mpc = "found"
    /\ package_name = <<"a", "-", "b", ".", "c">>
    /\ tree = {<<S_p, INIT_PY>>, <<S_p, A_PY>>}
    /\ modules = << <<"a", "-", "b", ".", "c">> >>

\* the claim's naming of a file below the package directory: the components
\* after the directory, .py stripped, a final __init__ dropped
ClaimPkgDir == IF Flat THEN <<>> ELSE <<Top(package_name)>>
ClaimPrefix == IF Flat THEN package_name ELSE Top(package_name)
ClaimParts(f) ==
    LET rel == SubSeq(f, Len(ClaimPkgDir) + 1, Len(f))
        stem == SubSeq(Last(rel), 1, Len(Last(rel)) - Len(PY))
    IN  IF stem = DUNDER_INIT THEN Front(rel) ELSE Front(rel) \o <<stem>>
ClaimPyFiles ==
    {f \in tree : /\ Len(f) > Len(ClaimPkgDir)
                  /\ SubSeq(f, 1, Len(ClaimPkgDir)) = ClaimPkgDir
                  /\ EndsWith(Last(f), PY)}
ClaimPublic(f) == \A i \in 1..Len(ClaimParts(f)) : ClaimParts(f)[i][1] # "_"
ClaimName(f) == Join(<<ClaimPrefix>> \o ClaimParts(f), DOT)

\* C6: when find_modules does not short-circuit, the names it returns are
\* exactly the names of the public .py files below the package directory,
\* prefixed by the package name (flat) or its first component (nested).
C6_ExactNames ==
    (Found /\ (Flat \/ \E f \in tree : f[1] = Top(package_name)))
        => Names(modules) = {ClaimName(f) : f \in {g \in ClaimPyFiles : ClaimPublic(g)}}

\* package a-b.c, nested under a_b/, with a public and a private module
C6_Witness ==
    /\ mpc = "found"
    /\ package_name = <<"a", "-", "b", ".", "c">>
    /\ tree = {<<S_a_b, INIT_PY>>, <<S_a_b, BC_PY>>, <<S_a_b, X_PY>>}
    /\ modules = << S_a_b, S_a_b \o DOT \o <<"b", "_", "c">> >>

\* the claim's header: the last dotted component, underscores as spaces,
\* title-cased, over as many dashes
ClaimHeader(mod) ==
    LET label == Title(Replace(SplitLast(mod, "."), "_", " "))
    IN  NL \o label \o NL \o [i \in 1..Len(label) |-> "-"] \o NL

\* the claim's body: a block per position, a header before every one but the first
RECURSIVE ClaimBody(_, _)
ClaimBody(ms, i) ==
    IF i > Len(ms) THEN <<>>
    ELSE (IF i = 1 THEN <<>> ELSE ClaimHeader(ms[i]))
         \o Directive(ms[i]) \o ClaimBody(ms, i + 1)

\* C7: for a non-empty list, make_index_rst emits one automodule block per
\* element in order, with a header before the block of every position after
\* the first and none before the first.
C7_HeaderPerPosition ==
    (mpc = "rendered" /\ modules # <<>>)
        => index_rst = IndexHead \o ClaimBody(modules, 1) \o IndexFoot

\* C10: find_modules never returns an empty list.
C10_NeverEmpty ==
    Found => modules # <<>>

====
